---------------------------- MODULE Spec2Model ----------------------------
(***************************************************************************)
(* Model of the stock_predictor data pipeline (src/stock_predictor/data.py)*)
(* and of its evaluation (src/stock_predictor/evaluate.py, main.py).       *)
(*                                                                         *)
(* prepare_data is one synchronous function; the model follows it          *)
(* statement by statement through the variable pc:                         *)
(*   download -> indicators -> select -> split -> fit -> transform ->      *)
(*   windows -> return -> returned | raised                                *)
(* and main continues from the returned dict:                              *)
(*   returned -> evaluated -> denormalised -> done | raised                *)
(* Several invocations of prepare_data side by side, each with its own     *)
(* locals and all with one heap of scaler objects, are the variables calls *)
(* and heap.                                                               *)
(*                                                                         *)
(* Numbers.  A float is modelled as a pair <<n, d>>: the rational n/d in  *)
(* lowest terms when d > 0, and the IEEE specials when d = 0 (<<1,0>> is   *)
(* +inf, <<-1,0>> is -inf, <<0,0>> is NaN).  Arithmetic is exact, except   *)
(* for the two operations whose exact results leave the machine integers   *)
(* (the exponential moving average and the square root), which round to    *)
(* the nearest multiple of 1/Resolution, as float64 rounds to 53 bits.     *)
(* The split boundaries, which are truncated to integers, are computed in  *)
(* binary64 bit by bit, and so is the scaled Close column (close64), next  *)
(* to its exact value in data_scaled.                                      *)
(*                                                                         *)
(* Rows.  Python row index t (0-based) is element t + 1 of a sequence.     *)
(***************************************************************************)
EXTENDS Integers, Sequences, FiniteSets, TLC

(***************************************************************************)
(* Bounds of the model                                                     *)
(***************************************************************************)
\* closes of the free tail of a source series range over 0..MaxClose
MaxClose == 2
\* number of free bars that follow the 29-bar warm-up prefix: 0..MaxTail
MaxTail == 4
\* lookback argument ranges over 1..MaxLookback
MaxLookback == 3
\* resolution of the two rounded operations (ewm mean, sqrt)
Resolution == 100
\* sequences handed to the evaluation alone: lengths 0..MaxEvalLen, values
\* 0..MaxEvalValue
MaxEvalLen == 3
MaxEvalValue == 1
\* FeatureMatrix lengths of the long rising series: 0..MaxRows
MaxRows == 90

(***************************************************************************)
(* Floats                                                                  *)
(***************************************************************************)
NaN == <<0, 0>>
Inf == <<1, 0>>
NegInf == <<-1, 0>>

Abs(i) == IF i < 0 THEN -i ELSE i

Sgn(i) == IF i < 0 THEN -1 ELSE IF i > 0 THEN 1 ELSE 0

RECURSIVE GCD(_, _)
GCD(a, b) == IF b = 0 THEN a ELSE GCD(b, a % b)

\* the float n/d for integers n and d > 0, in lowest terms
Frac(n, d) ==
    IF d = 1 THEN <<n, 1>>
    ELSE LET g == GCD(Abs(n), d) IN <<Sgn(n) * (Abs(n) \div g), d \div g>>

Num(i) == <<i, 1>>

IsNaN(x) == x[2] = 0 /\ x[1] = 0
IsInf(x) == x[2] = 0 /\ x[1] # 0
IsFinite(x) == x[2] > 0

FNeg(x) == <<-x[1], x[2]>>

FAdd(x, y) ==
    IF x[2] > 0 /\ y[2] > 0
    THEN IF x[2] = y[2] THEN Frac(x[1] + y[1], x[2])
         ELSE LET g == GCD(x[2], y[2])
              IN  Frac(x[1] * (y[2] \div g) + y[1] * (x[2] \div g), (x[2] \div g) * y[2])
    ELSE IF IsNaN(x) \/ IsNaN(y) THEN NaN
    ELSE IF IsInf(x) THEN (IF IsInf(y) /\ y # x THEN NaN ELSE x)
    ELSE y

FSub(x, y) == FAdd(x, FNeg(y))

FMul(x, y) ==
    IF x[2] > 0 /\ y[2] > 0
    THEN IF x[1] = 0 \/ y[1] = 0 THEN Num(0)
         ELSE IF x[2] = 1 /\ y[2] = 1 THEN <<x[1] * y[1], 1>>
         ELSE LET g1 == GCD(Abs(x[1]), y[2])
                  g2 == GCD(Abs(y[1]), x[2])
              IN  <<(x[1] \div g1) * (y[1] \div g2), (x[2] \div g2) * (y[2] \div g1)>>
    ELSE IF IsNaN(x) \/ IsNaN(y) \/ x[1] = 0 \/ y[1] = 0 THEN NaN
    ELSE <<Sgn(x[1]) * Sgn(y[1]), 0>>

\* IEEE division: 0/0 and inf/inf are NaN, x/0 is +-inf, x/inf is 0
FDiv(x, y) ==
    IF IsNaN(x) \/ IsNaN(y) THEN NaN
    ELSE IF IsInf(y) THEN (IF IsInf(x) THEN NaN ELSE Num(0))
    ELSE IF y[1] = 0 THEN (IF x[1] = 0 THEN NaN ELSE <<Sgn(x[1]), 0>>)
    ELSE IF IsInf(x) THEN <<Sgn(x[1]) * Sgn(y[1]), 0>>
    ELSE FMul(x, <<Sgn(y[1]) * y[2], Abs(y[1])>>)

\* x < y; every comparison with NaN is false
FLt(x, y) ==
    IF IsNaN(x) \/ IsNaN(y) THEN FALSE
    ELSE IF IsInf(x) THEN x[1] < 0 /\ y # x
    ELSE IF IsInf(y) THEN y[1] > 0
    ELSE x[1] * y[2] < y[1] * x[2]

FGt(x, y) == FLt(y, x)
FLe(x, y) == ~IsNaN(x) /\ ~IsNaN(y) /\ ~FLt(y, x)

\* floor(a * m / b) for b > 0, m >= 0, without forming a * m
MulDivFloor(a, m, b) ==
    LET q == a \div b
        r == a % b
    IN  q * m + ((r * m) \div b)

\* a finite float rounded to the nearest multiple of 1/Resolution
Round(x) ==
    IF ~IsFinite(x) \/ Resolution % x[2] = 0 THEN x
    ELSE LET q == x[1] \div x[2]
             r == x[1] % x[2]
         IN  Frac(q * Resolution + ((2 * r * Resolution + x[2]) \div (2 * x[2])),
                  Resolution)

RECURSIVE ISqrtIter(_, _, _)
ISqrtIter(k, lo, hi) ==
    IF lo >= hi THEN lo
    ELSE LET mid == (lo + hi + 1) \div 2
         IN  IF mid * mid <= k THEN ISqrtIter(k, mid, hi) ELSE ISqrtIter(k, lo, mid - 1)

\* the largest r with r * r <= k
ISqrt(k) == ISqrtIter(k, 0, IF k < 46340 THEN k ELSE 46340)

\* numpy sqrt: NaN for a negative or NaN argument, rounded otherwise
FSqrt(x) ==
    IF IsNaN(x) \/ x[1] < 0 THEN NaN
    ELSE IF IsInf(x) THEN Inf
    ELSE Frac(ISqrt(MulDivFloor(x[1], Resolution * Resolution, x[2])), Resolution)

(***************************************************************************)
(* pandas Series operations used by add_technical_indicators.  A Series is *)
(* a sequence of floats.                                                   *)
(***************************************************************************)
\* the sequence f with every element evaluated once (TLC evaluates a function
\* constructor anew at each application)
AsSeq(f) == SubSeq(f, 1, Len(f))

RECURSIVE SumRange(_, _, _)
SumRange(s, lo, hi) == IF lo > hi THEN Num(0) ELSE FAdd(s[lo], SumRange(s, lo + 1, hi))

\* a rolling mean that needs one more row than the window before it is defined
RollingMean_LateStart(s, window) ==
    AsSeq([t \in 1..Len(s) |->
        IF t <= window \/ \E k \in (t - window + 1)..t : IsNaN(s[k]) THEN NaN
        ELSE FDiv(SumRange(s, t - window + 1, t), Num(window))])

\* Series.rolling(window).mean(): min_periods = window, NaN before that
RollingMean(s, window) ==
    AsSeq([t \in 1..Len(s) |->
        IF t < window \/ \E k \in (t - window + 1)..t : IsNaN(s[k]) THEN NaN
        ELSE FDiv(SumRange(s, t - window + 1, t), Num(window))])

RECURSIVE SumSqDev(_, _, _, _)
SumSqDev(s, lo, hi, m) ==
    IF lo > hi THEN Num(0)
    ELSE LET e == FSub(s[lo], m) IN FAdd(FMul(e, e), SumSqDev(s, lo + 1, hi, m))

\* Series.rolling(window).std(): sample standard deviation (ddof = 1)
RollingStd(s, window) ==
    AsSeq([t \in 1..Len(s) |->
        IF t < window \/ \E k \in (t - window + 1)..t : IsNaN(s[k]) THEN NaN
        ELSE FSqrt(FDiv(SumSqDev(s, t - window + 1, t,
                                 FDiv(SumRange(s, t - window + 1, t), Num(window))),
                        Num(window - 1)))])

\* Series.diff(): NaN at the first row
Diff(s) ==
    AsSeq([t \in 1..Len(s) |-> IF t = 1 THEN NaN ELSE FSub(s[t], s[t - 1])])

\* a change series that is not divided by the previous value
PctChange_Absolute(s) ==
    AsSeq([t \in 1..Len(s) |-> IF t = 1 THEN NaN ELSE FSub(s[t], s[t - 1])])

\* Series.pct_change(): s[t] / s[t-1] - 1, NaN at the first row
PctChange(s) ==
    AsSeq([t \in 1..Len(s) |-> IF t = 1 THEN NaN ELSE FSub(FDiv(s[t], s[t - 1]), Num(1))])

\* Series.ewm(span, adjust=False).mean(): y[0] = x[0],
\* y[t] = (1 - a) * y[t-1] + a * x[t] with a = 2 / (span + 1).
\* EwmRun extends the means acc up to row hi; EwmBlocks does so block by
\* block, which keeps the evaluation's nesting shallow on long series.
EwmBlock == 16

RECURSIVE EwmRun(_, _, _, _)
EwmRun(s, a, hi, acc) ==
    IF Len(acc) >= hi THEN acc
    ELSE EwmRun(s, a, hi,
                Append(acc, Round(FAdd(FMul(FSub(Num(1), a), acc[Len(acc)]),
                                       FMul(a, s[Len(acc) + 1])))))

RECURSIVE EwmBlocks(_, _, _)
EwmBlocks(s, a, acc) ==
    IF Len(acc) >= Len(s) THEN acc
    ELSE EwmBlocks(s, a, EwmRun(s, a, IF Len(acc) + EwmBlock > Len(s) THEN Len(s)
                                      ELSE Len(acc) + EwmBlock, acc))

\* an exponential mean that starts from 0 instead of the first value
EwmMean_ZeroSeed(s, span) ==
    IF Len(s) = 0 THEN <<>> ELSE EwmBlocks(s, Frac(2, span + 1), <<Num(0)>>)

EwmMean(s, span) ==
    IF Len(s) = 0 THEN <<>> ELSE EwmBlocks(s, Frac(2, span + 1), <<s[1]>>)

\* elementwise s1 / s2 and s1 - s2 on two Series of the same length
SeriesDiv(s1, s2) == AsSeq([t \in 1..Len(s1) |-> FDiv(s1[t], s2[t])])

SeriesSub(s1, s2) == AsSeq([t \in 1..Len(s1) |-> FSub(s1[t], s2[t])])

(***************************************************************************)
(* DataFrames.  A DataFrame is a record of equally long columns, as in     *)
(* pandas; NRows is len(df).                                               *)
(***************************************************************************)
OHLCV == {"Open", "High", "Low", "Close", "Volume"}

NRows(df) == Len(df.Close)

\* the elements of s[lo..hi] whose index is in keep, in order
RECURSIVE KeepRows(_, _, _, _)
KeepRows(s, keep, lo, hi) ==
    IF lo > hi THEN <<>>
    ELSE IF lo = hi THEN (IF lo \in keep THEN <<s[lo]>> ELSE <<>>)
    ELSE KeepRows(s, keep, lo, (lo + hi) \div 2)
         \o KeepRows(s, keep, (lo + hi) \div 2 + 1, hi)

KeepAll(df, keep) == [c \in DOMAIN df |-> KeepRows(df[c], keep, 1, NRows(df))]

\* DataFrame.dropna(subset): the rows holding no NaN in the subset's columns,
\* in their original order
DropNa(df, subset) ==
    KeepAll(df, {t \in 1..NRows(df) : \A c \in subset : ~IsNaN(df[c][t])})

\* df[cols]: the DataFrame restricted to the listed columns
SelectCols(df, cols) == [c \in {cols[k] : k \in 1..Len(cols)} |-> df[c]]

\* df.values of a DataFrame whose columns are listed in cols: one tuple per row
Values(df, cols) ==
    [t \in 1..Len(df[cols[1]]) |-> [k \in 1..Len(cols) |-> df[cols[k]][t]]]

(***************************************************************************)
(* download_stock_data: the bars the provider returns for the ticker, with *)
(* the rows that miss an OHLCV field dropped.                              *)
(***************************************************************************)
download_stock_data(history) == DropNa(history, OHLCV)

(***************************************************************************)
(* add_technical_indicators                                                *)
(***************************************************************************)
SMA_10_WINDOW == 10
SMA_30_WINDOW == 30
RSI_WINDOW == 14
EMA_FAST == 12
EMA_SLOW == 26
EMA_SIGNAL == 9
BB_WINDOW == 20
BB_K == 2

\* delta.where(delta > 0, 0.0): NaN > 0 is false, so a NaN delta becomes 0.0
Gain(delta) ==
    AsSeq([t \in 1..Len(delta) |-> IF FGt(delta[t], Num(0)) THEN delta[t] ELSE Num(0)])

\* a loss series that keeps the sign of the falling deltas
Loss_Signed(delta) ==
    AsSeq([t \in 1..Len(delta) |-> IF FLt(delta[t], Num(0)) THEN delta[t] ELSE Num(0)])

\* (-delta).where(delta < 0, 0.0)
Loss(delta) ==
    AsSeq([t \in 1..Len(delta) |-> IF FLt(delta[t], Num(0)) THEN FNeg(delta[t]) ELSE Num(0)])

AvgGain(close) == RollingMean(Gain(Diff(close)), RSI_WINDOW)
AvgLoss(close) == RollingMean(Loss(Diff(close)), RSI_WINDOW)

\* rs = avg_gain / avg_loss
RS(close) == SeriesDiv(AvgGain(close), AvgLoss(close))

\* 100 - (100 / (1 + rs))
RSIOf(rs) == FSub(Num(100), FDiv(Num(100), FAdd(Num(1), rs)))

MapRSI(rs) == AsSeq([t \in 1..Len(rs) |-> RSIOf(rs[t])])

RSI_14(close) ==
    MapRSI(RS(close))

MACD(close) == SeriesSub(EwmMean(close, EMA_FAST), EwmMean(close, EMA_SLOW))

\* sma_20 + (k * std_20)
BBand(sma_20, std_20, k) ==
    AsSeq([t \in 1..Len(sma_20) |-> FAdd(sma_20[t], FMul(Num(k), std_20[t]))])

\* the assignments of the eight indicator columns, given the locals
WithIndicators(df, close, macd, sma_20, std_20) ==
    [SMA_10 |-> RollingMean(close, SMA_10_WINDOW),
     SMA_30 |-> RollingMean(close, SMA_30_WINDOW),
     Returns |-> PctChange(close),
     RSI_14 |-> RSI_14(close),
     MACD |-> macd,
     MACD_signal |-> EwmMean(macd, EMA_SIGNAL),
     BB_upper |-> BBand(sma_20, std_20, BB_K),
     BB_lower |-> BBand(sma_20, std_20, -BB_K)] @@ df

\* the copy of df with the eight indicator columns assigned
add_technical_indicators(df) ==
    WithIndicators(df, df.Close, MACD(df.Close),
                   RollingMean(df.Close, BB_WINDOW), RollingStd(df.Close, BB_WINDOW))

\* column assignments made on the argument itself
CopyOf_InPlace(arg) == arg

\* df = df.copy(): the frame object the column assignments are made on, a
\* new object next to the argument's
CopyOf(arg) == arg + 1

\* one call of add_technical_indicators on a heap of frame objects, the
\* argument being object 0 and the frame returned the object the columns
\* were assigned on: the argument as the call leaves it
ArgumentAfter(arg, returned) ==
    LET target == CopyOf(0)
        after == [o \in {0, target} |-> IF o = target THEN returned ELSE arg]
    IN  after[0]

(***************************************************************************)
(* sklearn MinMaxScaler, as prepare_data uses it (feature_range = (0, 1),  *)
(* clip = False).                                                          *)
(***************************************************************************)
ColMin(rows, c) ==
    CHOOSE v \in {rows[t][c] : t \in 1..Len(rows)} :
        \A t \in 1..Len(rows) : FLe(v, rows[t][c])

ColMax(rows, c) ==
    CHOOSE v \in {rows[t][c] : t \in 1..Len(rows)} :
        \A t \in 1..Len(rows) : FLe(rows[t][c], v)

HasInf(rows) == \E t \in 1..Len(rows) : \E c \in 1..Len(rows[t]) : IsInf(rows[t][c])

\* check_array: fit and transform refuse an empty array and an infinite value
CheckArray(rows) == Len(rows) > 0 /\ ~HasInf(rows)

\* MinMaxScaler().fit(rows): per-column data_min_ and data_max_; a zero
\* data_range_ is replaced by 1 in scale_ (sklearn's _handle_zeros_in_scale)
ScalerFit(rows) ==
    LET cols == 1..Len(rows[1])
        dmin == [c \in cols |-> ColMin(rows, c)]
        dmax == [c \in cols |-> ColMax(rows, c)]
        rng == [c \in cols |-> FSub(dmax[c], dmin[c])]
        scale == [c \in cols |-> FDiv(Num(1), IF rng[c] = Num(0) THEN Num(1) ELSE rng[c])]
    IN  [data_min_ |-> dmin, data_max_ |-> dmax, scale_ |-> scale,
         min_ |-> [c \in cols |-> FSub(Num(0), FMul(dmin[c], scale[c]))]]

\* scaler.transform(rows): X * scale_ + min_, no clipping
ScalerTransform(sc, rows) ==
    [t \in 1..Len(rows) |->
        [c \in 1..Len(rows[t]) |-> FAdd(FMul(rows[t][c], sc.scale_[c]), sc.min_[c])]]

(***************************************************************************)
(* binary64 arithmetic of the split boundaries.  int() truncates, so the   *)
(* last bit of n * train_ratio decides the boundary and the product is     *)
(* computed as the machine does: a non-negative double is                  *)
(* [man |-> bits, exp |-> e], man being MantissaBits bits, most            *)
(* significant (a 1) first, read as an integer, and the value man * 2^exp; *)
(* zero has man = <<>>.                                                    *)
(***************************************************************************)
MantissaBits == 53

\* digits of the quotient computed before rounding a ratio to a double
QuotientBits == 64

Zeros(k) == [i \in 1..k |-> 0]

RECURSIVE StripZeros(_)
StripZeros(b) == IF Len(b) > 0 /\ b[1] = 0 THEN StripZeros(Tail(b)) ELSE b

\* the bits of a natural number, most significant first
RECURSIVE IntBits(_)
IntBits(i) == IF i = 0 THEN <<>> ELSE Append(IntBits(i \div 2), i % 2)

RECURSIVE BitsToInt(_)
BitsToInt(b) ==
    IF Len(b) = 0 THEN 0 ELSE 2 * BitsToInt(SubSeq(b, 1, Len(b) - 1)) + b[Len(b)]

\* b + 1
RECURSIVE Increment(_)
Increment(b) ==
    IF Len(b) = 0 THEN <<1>>
    ELSE IF b[Len(b)] = 0 THEN Append(SubSeq(b, 1, Len(b) - 1), 1)
    ELSE Append(Increment(SubSeq(b, 1, Len(b) - 1)), 0)

\* the double nearest to (b + f) * 2^e, ties to even, where b is an integer
\* given by its bits and f a fraction in [0, 1) that is non-zero iff sticky
RoundToDouble(b, sticky, e) ==
    LET bits == StripZeros(b)
        len == Len(bits)
    IN  IF len = 0 THEN [man |-> <<>>, exp |-> 0]
        ELSE IF len <= MantissaBits
        THEN [man |-> bits \o Zeros(MantissaBits - len), exp |-> e - (MantissaBits - len)]
        ELSE LET keep == SubSeq(bits, 1, MantissaBits)
                 rest == sticky \/ \E i \in (MantissaBits + 2)..len : bits[i] = 1
                 up == bits[MantissaBits + 1] = 1 /\ (rest \/ keep[MantissaBits] = 1)
                 kept == IF up THEN Increment(keep) ELSE keep
             IN  IF Len(kept) > MantissaBits
                 THEN [man |-> SubSeq(kept, 1, MantissaBits), exp |-> e + (len - MantissaBits) + 1]
                 ELSE [man |-> kept, exp |-> e + (len - MantissaBits)]

\* long division of the bits d by q from position k on: <<quotient bits,
\* remainder>>.  (Here and below the second disjunct of the first test never
\* holds; it has the accumulated argument evaluated at every level.)
RECURSIVE LongDiv(_, _, _, _, _)
LongDiv(d, k, q, rem, acc) ==
    IF k > Len(d) \/ Len(acc) >= k THEN <<acc, rem>>
    ELSE LET r == 2 * rem + d[k]
         IN  IF r >= q THEN LongDiv(d, k + 1, q, r - q, Append(acc, 1))
             ELSE LongDiv(d, k + 1, q, r, Append(acc, 0))

\* the double a decimal literal or argument x = n/d >= 0 denotes: the one
\* nearest to n/d
DoubleOf(x) ==
    LET r == LongDiv(IntBits(x[1]) \o Zeros(QuotientBits), 1, x[2], 0, <<>>)
    IN  RoundToDouble(r[1], r[2] # 0, -QuotientBits)

\* the bits of b * k + carry, b read up to position i
RECURSIVE MulSmall(_, _, _, _)
MulSmall(b, i, k, carry) ==
    IF i = 0 \/ carry < 0 THEN IntBits(carry)
    ELSE Append(MulSmall(b, i - 1, k, (b[i] * k + carry) \div 2), (b[i] * k + carry) % 2)

\* k * x for an int k >= 0 and a double x: the exact product, rounded once
DMulInt(x, k) == RoundToDouble(MulSmall(x.man, Len(x.man), k, 0), FALSE, x.exp)

\* the bits of a + b + carry for equally long a and b, read up to position i
RECURSIVE AddBits(_, _, _, _)
AddBits(a, b, i, carry) ==
    IF i = 0 \/ carry < 0 THEN IntBits(carry)
    ELSE Append(AddBits(a, b, i - 1, (a[i] + b[i] + carry) \div 2), (a[i] + b[i] + carry) % 2)

\* x + y for doubles x, y >= 0: the exact sum, rounded once
DAdd(x, y) ==
    IF Len(x.man) = 0 THEN y
    ELSE IF Len(y.man) = 0 THEN x
    ELSE LET hi == IF x.exp >= y.exp THEN x ELSE y
             lo == IF x.exp >= y.exp THEN y ELSE x
             a == hi.man \o Zeros(hi.exp - lo.exp)
             b == Zeros(hi.exp - lo.exp) \o lo.man
         IN  RoundToDouble(AddBits(a, b, Len(a), 0), FALSE, lo.exp)

\* the bits of a - b - borrow for equally long a >= b, read up to position i
RECURSIVE SubBits(_, _, _, _)
SubBits(a, b, i, borrow) ==
    IF i = 0 \/ borrow < 0 THEN <<>>
    ELSE Append(SubBits(a, b, i - 1, IF a[i] - b[i] - borrow < 0 THEN 1 ELSE 0),
                (a[i] - b[i] - borrow + 2) % 2)

\* a < b for equally long bit sequences
BitsLess(a, b) ==
    \E i \in 1..Len(a) : a[i] < b[i] /\ \A j \in 1..(i - 1) : a[j] = b[j]

\* x - y for doubles x, y >= 0: the exact difference, rounded once; the
\* result is [neg |-> its sign, abs |-> its absolute value]
DSub(x, y) ==
    IF Len(y.man) = 0 THEN [neg |-> FALSE, abs |-> x]
    ELSE IF Len(x.man) = 0 THEN [neg |-> TRUE, abs |-> y]
    ELSE LET lo == IF x.exp <= y.exp THEN x.exp ELSE y.exp
             a == x.man \o Zeros(x.exp - lo)
             b == y.man \o Zeros(y.exp - lo)
             len == IF Len(a) >= Len(b) THEN Len(a) ELSE Len(b)
             pa == Zeros(len - Len(a)) \o a
             pb == Zeros(len - Len(b)) \o b
         IN  IF BitsLess(pa, pb)
             THEN [neg |-> TRUE, abs |-> RoundToDouble(SubBits(pb, pa, len, 0), FALSE, lo)]
             ELSE [neg |-> FALSE, abs |-> RoundToDouble(SubBits(pa, pb, len, 0), FALSE, lo)]

\* int(x) of a double x >= 0: truncation
DInt(x) ==
    IF Len(x.man) = 0 \/ MantissaBits + x.exp <= 0 THEN 0
    ELSE IF x.exp >= 0 THEN BitsToInt(x.man \o Zeros(x.exp))
    ELSE BitsToInt(SubSeq(x.man, 1, MantissaBits + x.exp))

(***************************************************************************)
(* Python built-ins                                                        *)
(***************************************************************************)
\* a slice bound as Python normalises it against a length
SliceBound(i, len) ==
    LET j == IF i < 0 THEN i + len ELSE i
    IN  IF j < 0 THEN 0 ELSE IF j > len THEN len ELSE j

\* s[start:stop] with 0-based, possibly negative bounds
PySlice(s, start, stop) ==
    LET a == SliceBound(start, Len(s))
        b == SliceBound(stop, Len(s))
    IN  IF a >= b THEN <<>> ELSE SubSeq(s, a + 1, b)

(***************************************************************************)
(* prepare_data                                                            *)
(***************************************************************************)
\* the feature columns with Volume listed before Close
feature_cols_VolumeFirst ==
    <<"Volume", "Close", "SMA_10", "SMA_30", "RSI_14",
      "MACD", "MACD_signal", "BB_upper", "BB_lower", "Returns">>

feature_cols ==
    <<"Close", "Volume", "SMA_10", "SMA_30", "RSI_14",
      "MACD", "MACD_signal", "BB_upper", "BB_lower", "Returns">>

\* train_end = int(n * train_ratio)
TrainEnd(len, tr) == DInt(DMulInt(DoubleOf(tr), len))

\* val_end = int(n * (train_ratio + val_ratio))
ValEnd(len, tr, vr) == DInt(DMulInt(DAdd(DoubleOf(tr), DoubleOf(vr)), len))

\* column 0 of scaler.transform(data) as the machine computes it, for a
\* Close column of integers: scale_ = 1.0 / data_range_ (1.0 for a zero
\* range), min_ = 0.0 - data_min_ * scale_, and the result x * scale_ + min_,
\* every operation rounded to a double
TransformClose64(sc, rows) ==
    LET lo == sc.data_min_[1][1]
        hi == sc.data_max_[1][1]
        scale == DoubleOf(Frac(1, IF hi = lo THEN 1 ELSE hi - lo))
        offset == DMulInt(scale, lo)
    IN  AsSeq([t \in 1..Len(rows) |-> DSub(DMulInt(scale, rows[t][1][1]), offset)])

\* a scaler fitted on every row instead of the train prefix
FitRows_AllRows(rows, te) == rows

\* the rows the scaler is fitted on: data[:train_end]
FitRows(rows, te) == PySlice(rows, 0, te)

\* the loop "for i in range(lookback, len(data_scaled))": the 0-based target rows
WindowTargets(len, lb) == [k \in 1..(IF len > lb THEN len - lb ELSE 0) |-> lb + k - 1]

\* a window that ends at the target row instead of before it
WindowAt_InclTarget(rows, lb, i) == PySlice(rows, i - lb + 1, i + 1)

\* X.append(data_scaled[i - lookback:i])
WindowAt(rows, lb, i) == PySlice(rows, i - lb, i)

\* y.append(data_scaled[i, 0])
TargetAt(rows, i) == rows[i + 1][1]

\* slice bounds that are not shifted by the lookback
EndSeq_NoOffset(end, lb) == end

\* train_end_seq = train_end - lookback; val_end_seq = val_end - lookback
EndSeq(end, lb) == end - lb

\* the three slices of one array of the returned dict
\* a train slice bounded by train_end instead of train_end - lookback
SplitTrain_NoOffset(a, te, lb) == PySlice(a, 0, te)

SplitTrain(a, te, lb) == PySlice(a, 0, EndSeq(te, lb))
SplitVal(a, te, ve, lb) == PySlice(a, EndSeq(te, lb), EndSeq(ve, lb))
SplitTest(a, ve, lb) == PySlice(a, EndSeq(ve, lb), Len(a))

(***************************************************************************)
(* numpy on 1-d arrays (sequences of floats)                               *)
(***************************************************************************)
\* the length two 1-d arrays of lengths a and b broadcast to; -1 if they do not
BroadcastLen(a, b) ==
    IF a = b THEN a ELSE IF a = 1 THEN b ELSE IF b = 1 THEN a ELSE -1

\* element k of a 1-d array stretched by broadcasting
BroadcastAt(a, k) == IF Len(a) = 1 THEN a[1] ELSE a[k]

\* a - b
NpSub(a, b) ==
    [k \in 1..BroadcastLen(Len(a), Len(b)) |-> FSub(BroadcastAt(a, k), BroadcastAt(b, k))]

\* np.abs(a)
NpAbs(a) == [k \in 1..Len(a) |-> IF FLt(a[k], Num(0)) THEN FNeg(a[k]) ELSE a[k]]

\* a ** 2
NpSquare(a) == [k \in 1..Len(a) |-> FMul(a[k], a[k])]

\* np.mean(a): sum / count, which is 0/0 = NaN for an empty array
NpMean(a) == FDiv(SumRange(a, 1, Len(a)), Num(Len(a)))

(***************************************************************************)
(* evaluate.py                                                             *)
(***************************************************************************)
\* a baseline that averages the signed differences
naive_baseline_Signed(y_true) ==
    NpMean(NpSub(PySlice(y_true, 1, Len(y_true)), PySlice(y_true, 0, -1)))

\* y_pred = y_true[:-1]; y_actual = y_true[1:];
\* float(np.mean(np.abs(y_actual - y_pred)))
naive_baseline(y_true) ==
    NpMean(NpAbs(NpSub(PySlice(y_true, 1, Len(y_true)), PySlice(y_true, 0, -1))))

EvalRaised == [status |-> "raised"]

\* an evaluation whose mae averages the signed errors
evaluate_model_Signed(predictions, y_test) ==
    IF BroadcastLen(Len(predictions), Len(y_test)) < 0 THEN EvalRaised
    ELSE [status |-> "returned",
          mse |-> NpMean(NpSquare(NpSub(predictions, y_test))),
          mae |-> NpMean(NpSub(predictions, y_test)),
          predictions |-> predictions,
          y_test |-> y_test]

\* evaluate_model, given the flattened output of model.predict(X_test):
\* predictions - y_test raises when the two shapes do not broadcast
evaluate_model(predictions, y_test) ==
    IF BroadcastLen(Len(predictions), Len(y_test)) < 0 THEN EvalRaised
    ELSE [status |-> "returned",
          mse |-> NpMean(NpSquare(NpSub(predictions, y_test))),
          mae |-> NpMean(NpAbs(NpSub(predictions, y_test))),
          predictions |-> predictions,
          y_test |-> y_test]

(***************************************************************************)
(* main.py                                                                 *)
(***************************************************************************)
\* a denormalisation that leaves out the offset data_min_[0]
Denormalise_NoOffset(s, sc) == FMul(s, FSub(sc.data_max_[1], sc.data_min_[1]))

\* s * (scaler.data_max_[0] - scaler.data_min_[0]) + scaler.data_min_[0]
Denormalise(s, sc) ==
    FAdd(FMul(s, FSub(sc.data_max_[1], sc.data_min_[1])), sc.data_min_[1])

(***************************************************************************)
(* Inputs: the bars the provider holds for the ticker, and the arguments   *)
(***************************************************************************)
WarmupBars == SMA_30_WINDOW - 1

WarmupShapes == {"flat", "zigzag", "ramp"}

\* the closes of the first WarmupBars bars
WarmupClose(shape) ==
    [t \in 1..WarmupBars |->
        CASE shape = "flat" -> 1
          [] shape = "zigzag" -> 1 + (t % 2)
          [] shape = "ramp" -> t]

Tails == UNION {[1..k -> 0..MaxClose] : k \in 0..MaxTail}

\* a well-formed series: every OHLCV field is a finite non-negative number
Bars(closes) ==
    LET c == [t \in 1..Len(closes) |-> Num(closes[t])]
    IN  [Open |-> c, High |-> c, Low |-> c, Close |-> c,
         Volume |-> [t \in 1..Len(closes) |-> Num(1 + (t % 3))]]

\* the defaults of prepare_data's parameters
DEFAULT_LOOKBACK == 60
DEFAULT_TRAIN_RATIO == Frac(70, 100)
DEFAULT_VAL_RATIO == Frac(15, 100)

RatioPairs == {<<DEFAULT_TRAIN_RATIO, DEFAULT_VAL_RATIO>>, <<Frac(40, 100), Frac(20, 100)>>}

NoScaler == [data_min_ |-> <<>>, data_max_ |-> <<>>, scale_ |-> <<>>, min_ |-> <<>>]
NoResult == [status |-> "none"]

VARIABLES
    pc,           \* the statement prepare_data executes next
    history,      \* the bars the provider returns (input)
    lookback,     \* argument
    train_ratio,  \* argument
    val_ratio,    \* argument
    df,           \* local df
    arg_df,       \* the frame passed to add_technical_indicators, after the call
    data,         \* local data
    n,            \* local n
    train_end,    \* local train_end
    val_end,      \* local val_end
    scaler,       \* the MinMaxScaler's fitted attributes
    fit_calls,    \* number of scaler.fit calls made so far
    data_scaled,  \* local data_scaled
    close64,      \* column 0 of data_scaled as binary64 values
    X,            \* local X
    y,            \* local y
    target_row,   \* for each window of X, the 0-based row its target is read from
    result,       \* the returned dict
    results,      \* main: the dict evaluate_model returns
    y_test_denorm,\* main: local y_test_denorm
    baseline_mae, \* main: local baseline_mae
    calls,        \* several invocations of prepare_data: the locals of each
    heap          \* the MinMaxScaler objects the invocations created

vars == <<pc, history, lookback, train_ratio, val_ratio, df, arg_df, data, n, train_end,
          val_end, scaler, fit_calls, data_scaled, close64, X, y, target_row,
          result, results, y_test_denorm, baseline_mae, calls, heap>>

\* the locals of main that follow the call of prepare_data
mainVars == <<results, y_test_denorm, baseline_mae>>

\* the locals of prepare_data
dataVars == <<history, lookback, train_ratio, val_ratio, df, arg_df, data, n, train_end,
              val_end, scaler, fit_calls, data_scaled, close64, X, y, target_row>>

ratios == <<train_ratio, val_ratio>>

\* the state of the invocations that run side by side
callVars == <<calls, heap>>

\* the invocations, and the locals of one that has not started
Invocations == {1, 2, 3}

NewCall ==
    [pc |-> "download", ticker |-> "", lookback |-> 0, train_ratio |-> Num(0),
     val_ratio |-> Num(0), df |-> [Close |-> <<>>], data |-> <<>>, train_end |-> 0,
     val_end |-> 0, scaler |-> 0, data_scaled |-> <<>>, X |-> <<>>, y |-> <<>>,
     result |-> NoResult]

\* The arguments lookback, train_ratio and val_ratio are drawn where
\* prepare_data first reads them (Split, Windows); until then they hold 0.
InitLocals ==
    /\ pc = "download"
    /\ lookback = 0
    /\ train_ratio = Num(0)
    /\ val_ratio = Num(0)
    /\ df = [Close |-> <<>>]
    /\ arg_df = [Close |-> <<>>]
    /\ data = <<>>
    /\ n = 0
    /\ train_end = 0
    /\ val_end = 0
    /\ scaler = NoScaler
    /\ fit_calls = 0
    /\ data_scaled = <<>>
    /\ close64 = <<>>
    /\ X = <<>>
    /\ y = <<>>
    /\ target_row = <<>>
    /\ result = NoResult
    /\ results = NoResult
    /\ y_test_denorm = <<>>
    /\ baseline_mae = NaN
    /\ calls = [i \in Invocations |-> NewCall]
    /\ heap = [o \in Invocations |-> NoScaler]

Init ==
    /\ \E shape \in WarmupShapes, tail \in Tails :
          history = Bars(WarmupClose(shape) \o tail)
    /\ InitLocals

\* df = download_stock_data(ticker, period="5y")
Download ==
    /\ pc = "download"
    /\ df' = download_stock_data(history)
    /\ pc' = "indicators"
    /\ UNCHANGED <<mainVars, callVars, arg_df, close64, history, lookback, ratios, data, n, train_end, val_end, scaler, fit_calls,
                   data_scaled, X, y, target_row, result>>

\* df = add_technical_indicators(df)
Indicators ==
    /\ pc = "indicators"
    /\ df' = add_technical_indicators(df)
    /\ arg_df' = ArgumentAfter(df, df')
    /\ pc' = "select"
    /\ UNCHANGED <<mainVars, callVars, close64, history, lookback, ratios, data, n, train_end, val_end, scaler, fit_calls,
                   data_scaled, X, y, target_row, result>>

\* df = df[feature_cols].dropna(); data = df.values
Select ==
    /\ pc = "select"
    /\ LET sel == SelectCols(df, feature_cols)
       IN  df' = DropNa(sel, DOMAIN sel)
    /\ data' = Values(df', feature_cols)
    /\ pc' = "split"
    /\ UNCHANGED <<mainVars, callVars, arg_df, close64, history, lookback, ratios, n, train_end, val_end, scaler, fit_calls,
                   data_scaled, X, y, target_row, result>>

\* n = len(data); train_end = ...; val_end = ..., for ratios drawn from choices
SplitWith(choices) ==
    /\ pc = "split"
    /\ \E r \in choices : train_ratio' = r[1] /\ val_ratio' = r[2]
    /\ n' = Len(data)
    /\ train_end' = TrainEnd(n', train_ratio')
    /\ val_end' = ValEnd(n', train_ratio', val_ratio')
    /\ pc' = "fit"
    /\ UNCHANGED <<mainVars, callVars, arg_df, close64, history, lookback, df, data, scaler, fit_calls, data_scaled, X, y,
                   target_row, result>>

\* scaler = MinMaxScaler(); scaler.fit(data[:train_end])
Fit ==
    /\ pc = "fit"
    /\ fit_calls' = fit_calls + 1
    /\ IF CheckArray(FitRows(data, train_end))
       THEN scaler' = ScalerFit(FitRows(data, train_end)) /\ pc' = "transform"
       ELSE scaler' = scaler /\ pc' = "raised"
    /\ UNCHANGED <<mainVars, callVars, arg_df, close64, history, lookback, ratios, df, data, n, train_end, val_end, data_scaled, X, y,
                   target_row, result>>

\* data_scaled = scaler.transform(data)
Transform ==
    /\ pc = "transform"
    /\ IF CheckArray(data)
       THEN /\ data_scaled' = ScalerTransform(scaler, data)
            /\ close64' = TransformClose64(scaler, data)
            /\ pc' = "windows"
       ELSE data_scaled' = data_scaled /\ close64' = close64 /\ pc' = "raised"
    /\ UNCHANGED <<mainVars, callVars, arg_df, history, lookback, ratios, df, data, n, train_end, val_end, scaler, fit_calls, X, y,
                   target_row, result>>

\* the windowing loop, then X = np.array(X); y = np.array(y), for a lookback
\* drawn from choices
WindowsWith(choices) ==
    /\ pc = "windows"
    /\ lookback' \in choices
    /\ target_row' = WindowTargets(Len(data_scaled), lookback')
    /\ X' = [k \in DOMAIN target_row' |-> WindowAt(data_scaled, lookback', target_row'[k])]
    /\ y' = [k \in DOMAIN target_row' |-> TargetAt(data_scaled, target_row'[k])]
    /\ pc' = "return"
    /\ UNCHANGED <<mainVars, callVars, arg_df, close64, history, ratios, df, data, n, train_end, val_end, scaler, fit_calls,
                   data_scaled, result>>

\* the returned dict; rows_* are the target rows of the windows of each group
Return ==
    /\ pc = "return"
    /\ result' =
          [status |-> "returned",
           X_train |-> SplitTrain(X, train_end, lookback),
           y_train |-> SplitTrain(y, train_end, lookback),
           X_val |-> SplitVal(X, train_end, val_end, lookback),
           y_val |-> SplitVal(y, train_end, val_end, lookback),
           X_test |-> SplitTest(X, val_end, lookback),
           y_test |-> SplitTest(y, val_end, lookback),
           scaler |-> scaler,
           rows_train |-> SplitTrain(target_row, train_end, lookback),
           rows_val |-> SplitVal(target_row, train_end, val_end, lookback),
           rows_test |-> SplitTest(target_row, val_end, lookback)]
    /\ pc' = "returned"
    /\ UNCHANGED <<mainVars, callVars, arg_df, close64, history, lookback, ratios, df, data, n, train_end, val_end, scaler, fit_calls,
                   data_scaled, X, y, target_row>>

Split == SplitWith(RatioPairs)

Windows == WindowsWith(1..MaxLookback)

Next ==
    \/ Download
    \/ Indicators
    \/ Select
    \/ Split
    \/ Fit
    \/ Transform
    \/ Windows
    \/ Return

Spec == Init /\ [][Next]_vars

(***************************************************************************)
(* Properties of prepare_data                                              *)
(***************************************************************************)
Fitted == pc \in {"transform", "windows", "return", "returned"}
Windowed == pc \in {"return", "returned"}
Returned == pc = "returned"

NFeatures == Len(feature_cols)

\* v is the least (sign = 1) or greatest (sign = -1) value of column c over
\* the first te rows
IsExtremeOver(v, rows, te, c, sign) ==
    /\ \E t \in 1..te : rows[t][c] = v
    /\ \A t \in 1..te : IF sign = 1 THEN FLe(v, rows[t][c]) ELSE FLe(rows[t][c], v)

\* matrices that agree with rows on the first te rows and hold other
\* values, below or above every value of rows, after them
AltCells == {Num(-9), Num(9)}

Alternatives(rows, te) ==
    {[t \in 1..Len(rows) |->
        IF t <= te THEN rows[t] ELSE [c \in 1..NFeatures |-> alt[t]]] :
     alt \in [(te + 1)..Len(rows) -> AltCells]}

\* C1: the scaler's per-column min and max are those of FeatureMatrix rows
\* [0, train_end) alone: any matrix of the same length that agrees on these
\* rows yields the same fitted bounds; and fit has been called exactly once
\* whenever the scaler is used or returned.
C1_ScalerFitOnTrainPrefixOnce ==
    Fitted =>
        /\ fit_calls = 1
        /\ \A c \in 1..NFeatures :
              /\ IsExtremeOver(scaler.data_min_[c], data, train_end, c, 1)
              /\ IsExtremeOver(scaler.data_max_[c], data, train_end, c, -1)
        /\ LET te == TrainEnd(Len(data), train_ratio)
           IN  \A alt \in Alternatives(data, train_end) :
                   LET sc == ScalerFit(FitRows(alt, te))
                   IN  /\ Len(alt) = Len(data)
                       /\ sc.data_min_ = scaler.data_min_
                       /\ sc.data_max_ = scaler.data_max_
        /\ (Returned => result.scaler = scaler)

\* C1 witness: a returned run whose validation/test rows exceed the fitted
\* maximum of the close column
C1_Witness ==
    /\ Returned
    /\ 0 < train_end /\ train_end < n
    /\ \E t \in (train_end + 1)..n : FLt(scaler.data_max_[1], data[t][1])

Precedes(a, b) == \A i \in DOMAIN a : \A j \in DOMAIN b : a[i] < b[j]

Disjoint(a, b) == \A i \in DOMAIN a : \A j \in DOMAIN b : a[i] # b[j]

\* C2 (as claimed): whenever prepare_data returns, the three groups are
\* pairwise disjoint sets of windows and every train target row precedes
\* every validation target row, which precedes every test target row.
C2_Claim ==
    Returned =>
        /\ Disjoint(result.rows_train, result.rows_val)
        /\ Disjoint(result.rows_val, result.rows_test)
        /\ Disjoint(result.rows_train, result.rows_test)
        /\ Precedes(result.rows_train, result.rows_val)
        /\ Precedes(result.rows_val, result.rows_test)
        /\ Precedes(result.rows_train, result.rows_test)

\* C3: for 1 <= L < N the windowing loop produces exactly N - L pairs; the
\* k-th window holds rows i-L .. i-1 (i = k + L, 0-based) in order, each with
\* all the feature columns, and its target is column 0 of row i.
C3_WindowsAndTargets ==
    (Windowed /\ 1 <= lookback /\ lookback < Len(data_scaled)) =>
        /\ Len(X) = Len(data_scaled) - lookback
        /\ Len(y) = Len(data_scaled) - lookback
        /\ \A k \in 1..(Len(data_scaled) - lookback) :
              /\ Len(X[k]) = lookback
              /\ \A j \in 1..lookback :
                    /\ X[k][j] = data_scaled[k + j - 1]
                    /\ Len(X[k][j]) = NFeatures
              /\ y[k] = data_scaled[k + lookback][1]
              /\ target_row[k] = k - 1 + lookback

\* C3 witness: several windows over rows that differ
C3_Witness ==
    /\ Returned
    /\ lookback >= 2
    /\ Len(X) >= 2
    /\ X[1] # X[2]
    /\ y[1] # y[2]

\* C4 (as claimed): whenever prepare_data returns, the three groups together
\* hold as many examples as windows were produced, for X and for y.
C4_Claim ==
    Returned =>
        /\ Len(result.X_train) + Len(result.X_val) + Len(result.X_test) = Len(X)
        /\ Len(result.y_train) + Len(result.y_val) + Len(result.y_test) = Len(y)

\* C5 (as claimed): prepare_data does not return when train_end - lookback
\* or val_end - lookback is negative.
C5_Claim ==
    Returned => (train_end - lookback >= 0 /\ val_end - lookback >= 0)

\* C6 (as claimed): the windowing step does not complete when the lookback
\* is at least the number of FeatureMatrix rows.
C6_Claim ==
    Windowed => lookback < Len(data_scaled)

Transformed == pc \in {"windows", "return", "returned"}

\* C13 (as claimed): the scaler is never fitted on a train prefix in which a
\* feature column has max = min; such a fit raises.
C13_Claim ==
    Fitted => \A c \in 1..NFeatures : scaler.data_min_[c] # scaler.data_max_[c]

\* C14 (as claimed): every value v of column c of every row is transformed
\* to (v - min_c) / (max_c - min_c) with the fitted bounds, unclamped.
C14_Claim ==
    Transformed =>
        \A t \in 1..Len(data) : \A c \in 1..NFeatures :
            data_scaled[t][c] =
                FDiv(FSub(data[t][c], scaler.data_min_[c]),
                     FSub(scaler.data_max_[c], scaler.data_min_[c]))

\* C15 (as claimed): the transformed rows of the train prefix lie in [0, 1]
\* in every column, the column's minimum over the prefix at exactly 0 and
\* its maximum at exactly 1.
C15_Claim ==
    Transformed =>
        \A c \in 1..NFeatures : \A t \in 1..train_end :
            /\ FLe(Num(0), data_scaled[t][c]) /\ FLe(data_scaled[t][c], Num(1))
            /\ (data[t][c] = scaler.data_min_[c] => data_scaled[t][c] = Num(0))
            /\ (data[t][c] = scaler.data_max_[c] => data_scaled[t][c] = Num(1))

(***************************************************************************)
(* Properties of add_technical_indicators.  At pc = "select" df is the     *)
(* frame the function has just returned.                                   *)
(***************************************************************************)
HasFrame == pc = "select"

\* C8 (as claimed): at every row whose trailing 14-bar average loss is 0,
\* RSI_14 is the number 100.
C8_Claim ==
    HasFrame =>
        \A t \in 1..NRows(df) :
            AvgLoss(df.Close)[t] = Num(0) => df.RSI_14[t] = Num(100)

\* C9: every defined RSI_14 value lies in [0, 100].
C9_RSIBounds ==
    HasFrame =>
        \A t \in 1..NRows(df) :
            ~IsNaN(df.RSI_14[t]) =>
                (FLe(Num(0), df.RSI_14[t]) /\ FLe(df.RSI_14[t], Num(100)))

\* C9 witness: a frame with an RSI at the upper bound and one strictly inside
C9_Witness ==
    /\ HasFrame
    /\ \E t \in 1..NRows(df) : df.RSI_14[t] = Num(100)
    /\ \E t \in 1..NRows(df) :
          FLt(Num(0), df.RSI_14[t]) /\ FLt(df.RSI_14[t], Num(100))

\* C10 (as claimed): no column of the frame holds NaN at a row of index >= 30.
C10_Claim ==
    HasFrame =>
        \A c \in DOMAIN df : \A t \in 1..NRows(df) :
            t - 1 >= SMA_30_WINDOW => ~IsNaN(df[c][t])

\* C11 (as claimed): RSI_14 is undefined at every row whose trailing 14-row
\* window contains row 0, the row without a close-to-close delta.
C11_Claim ==
    HasFrame =>
        \A t \in 1..NRows(df) : (t - 1) - (RSI_WINDOW - 1) <= 0 => IsNaN(df.RSI_14[t])

\* the sum of the k values of s that end at row t
RECURSIVE TrailingSum(_, _, _)
TrailingSum(s, t, k) ==
    IF k = 0 THEN Num(0) ELSE FAdd(TrailingSum(s, t - 1, k - 1), s[t])

\* the mean of the k values of s that end at 0-based row r, undefined while
\* fewer than k values exist
TrailingMean(s, r, k) ==
    IF r < k - 1 THEN NaN ELSE FDiv(TrailingSum(s, r + 1, k), Num(k))

\* C12: SMA_10[t] (SMA_30[t]) is the mean of close over rows t-9..t
\* (t-29..t) for t >= 9 (t >= 29) and undefined before; Returns[t] is
\* (close[t] - close[t-1]) / close[t-1] for t >= 1 and undefined at t = 0.
C12_SMAAndReturns ==
    HasFrame =>
        \A r \in 0..(NRows(df) - 1) :
            /\ df.SMA_10[r + 1] = TrailingMean(df.Close, r, 10)
            /\ df.SMA_30[r + 1] = TrailingMean(df.Close, r, 30)
            /\ df.Returns[r + 1] =
                  IF r = 0 THEN NaN
                  ELSE FDiv(FSub(df.Close[r + 1], df.Close[r]), df.Close[r])

\* C12 witness: a frame past both warm-ups whose two averages differ and
\* that holds a rising and a falling return
C12_Witness ==
    /\ HasFrame
    /\ NRows(df) > SMA_30_WINDOW
    /\ \E t \in 1..NRows(df) :
          IsFinite(df.SMA_30[t]) /\ df.SMA_10[t] # df.SMA_30[t]
    /\ \E t \in 1..NRows(df) : IsFinite(df.Returns[t]) /\ FLt(df.Returns[t], Num(0))
    /\ \E t \in 1..NRows(df) : IsFinite(df.Returns[t]) /\ FGt(df.Returns[t], Num(0))

(***************************************************************************)
(* The end-to-end case: a series of LinearBars bars whose close rises      *)
(* linearly, prepared with the default lookback and ratios.                *)
(***************************************************************************)
LinearBars == 300
MaxSlope == 4
MaxIntercept == 3

LinearClose(a, b) == [t \in 1..LinearBars |-> a + b * (t - 1)]

InitLinear ==
    /\ \E a \in 1..MaxIntercept, b \in 1..MaxSlope : history = Bars(LinearClose(a, b))
    /\ InitLocals

SplitDefault == SplitWith({<<DEFAULT_TRAIN_RATIO, DEFAULT_VAL_RATIO>>})

WindowsDefault == WindowsWith({DEFAULT_LOOKBACK})

NextLinear ==
    \/ Download
    \/ Indicators
    \/ Select
    \/ SplitDefault
    \/ Fit
    \/ Transform
    \/ WindowsDefault
    \/ Return

SpecLinear == InitLinear /\ [][NextLinear]_vars

GroupSizes == Len(result.X_train) + Len(result.X_val) + Len(result.X_test)

\* C7 (as claimed): the three groups hold 300 - 30 - 60 = 210 windows.
C7_Claim ==
    Returned => GroupSizes = LinearBars - SMA_30_WINDOW - DEFAULT_LOOKBACK

\* C7 (amended): the three groups hold 300 - 29 - 60 = 211 windows; the
\* longest warm-up drops the first 29 rows, not 30.
C7_GroupSizesLinear ==
    Returned =>
        /\ lookback = DEFAULT_LOOKBACK
        /\ train_ratio = DEFAULT_TRAIN_RATIO /\ val_ratio = DEFAULT_VAL_RATIO
        /\ n = LinearBars - (SMA_30_WINDOW - 1)
        /\ GroupSizes = LinearBars - (SMA_30_WINDOW - 1) - DEFAULT_LOOKBACK
        /\ Len(result.y_train) + Len(result.y_val) + Len(result.y_test) = GroupSizes

\* C7 witness: the linear series is prepared and every group is non-empty
C7_Witness ==
    /\ Returned
    /\ NRows(history) = LinearBars
    /\ \A t \in 2..LinearBars : FLt(history.Close[t - 1], history.Close[t])
    /\ Len(result.X_train) > 0 /\ Len(result.X_val) > 0 /\ Len(result.X_test) > 0

(***************************************************************************)
(* main after prepare_data: evaluation, denormalisation, naive baseline.   *)
(* create_model reads data["X_train"].shape[2], which exists only when the *)
(* windowing loop produced a window, so main gets here only with a         *)
(* non-empty X.  The trained model is arbitrary: model.predict yields one  *)
(* value per window of X_test, and whether it accepts an empty batch is    *)
(* left open.                                                              *)
(***************************************************************************)
\* outputs of model.predict(X_test).flatten(): a constant, or the last close
\* of each window
PredictFor(X_test) ==
    {[k \in DOMAIN X_test |-> v] : v \in {Num(0), Frac(1, 2)}}
        \cup {[k \in DOMAIN X_test |-> X_test[k][Len(X_test[k])][1]]}

\* results = evaluate_model(model, data), for predictions drawn from choices
EvaluateWith(choices) ==
    /\ pc = "returned"
    /\ \E predictions \in choices, refuses \in BOOLEAN :
          results' = IF Len(predictions) = 0 /\ refuses THEN EvalRaised
                     ELSE evaluate_model(predictions, result.y_test)
    /\ pc' = IF results'.status = "raised" THEN "raised" ELSE "evaluated"
    /\ UNCHANGED <<dataVars, callVars, result, y_test_denorm, baseline_mae>>

EvaluateMain ==
    /\ pc = "returned"
    /\ Len(X) > 0
    /\ EvaluateWith(PredictFor(result.X_test))

\* scaler = data["scaler"]; y_test_denorm = results["y_test"] * (...) + ...
DenormaliseYTest ==
    /\ pc = "evaluated"
    /\ y_test_denorm' =
          [k \in DOMAIN results.y_test |-> Denormalise(results.y_test[k], result.scaler)]
    /\ pc' = "denormalised"
    /\ UNCHANGED <<dataVars, callVars, result, results, baseline_mae>>

\* baseline_mae = naive_baseline(y_test_denorm)
Baseline ==
    /\ pc = "denormalised"
    /\ baseline_mae' = naive_baseline(y_test_denorm)
    /\ pc' = "done"
    /\ UNCHANGED <<dataVars, callVars, result, results, y_test_denorm>>

NextMain ==
    \/ Next
    \/ EvaluateMain
    \/ DenormaliseYTest
    \/ Baseline

SpecMain == Init /\ [][NextMain]_vars

Denormalised == pc \in {"denormalised", "done"}

InFittedRange(v, sc) == FLe(sc.data_min_[1], v) /\ FLe(v, sc.data_max_[1])

\* C16: denormalising the scaled close of a row whose close lies within the
\* fitted [min, max] of the close column gives back that close, for every
\* row of the FeatureMatrix and for the y_test that main denormalises.
C16_CloseRoundTrip ==
    /\ Transformed =>
          \A t \in 1..Len(data) :
              InFittedRange(data[t][1], scaler) =>
                  Denormalise(data_scaled[t][1], scaler) = data[t][1]
    /\ Denormalised =>
          /\ Len(y_test_denorm) = Len(result.rows_test)
          /\ \A k \in 1..Len(y_test_denorm) :
                InFittedRange(data[result.rows_test[k] + 1][1], result.scaler) =>
                    y_test_denorm[k] = data[result.rows_test[k] + 1][1]

\* C16 witness: main denormalised a test target that the scaler had changed
\* and that lies within the fitted range of a non-constant close column
C16_Witness ==
    /\ Denormalised
    /\ FLt(scaler.data_min_[1], scaler.data_max_[1])
    /\ \E k \in 1..Len(y_test_denorm) :
          /\ InFittedRange(data[result.rows_test[k] + 1][1], result.scaler)
          /\ result.y_test[k] # data[result.rows_test[k] + 1][1]
          /\ y_test_denorm[k] = data[result.rows_test[k] + 1][1]

(***************************************************************************)
(* Series of every length: WarmupBars + k bars of a rising close, which    *)
(* give a FeatureMatrix of exactly k rows, for k in 0..MaxRows.            *)
(***************************************************************************)
RisingClose(k) == [t \in 1..(WarmupBars + k) |-> t]

InitRows ==
    /\ \E k \in 0..MaxRows : history = Bars(RisingClose(k))
    /\ InitLocals

SpecRows == InitRows /\ [][Next]_vars

SplitDone == pc \notin {"download", "indicators", "select", "split"}

\* floor of a non-negative finite float
Floor(x) == x[1] \div x[2]

\* C17 (as claimed): train_end = floor(N * train_ratio),
\* val_end = floor(N * (train_ratio + val_ratio)), and
\* 0 <= train_end <= val_end <= N.
C17_Claim ==
    SplitDone =>
        /\ n = Len(data)
        /\ train_end = Floor(FMul(Num(n), train_ratio))
        /\ val_end = Floor(FMul(Num(n), FAdd(train_ratio, val_ratio)))
        /\ 0 <= train_end /\ train_end <= val_end /\ val_end <= n

(***************************************************************************)
(* The evaluation alone: evaluate_model, the denormalisation and           *)
(* naive_baseline applied to an arbitrary data dict and an arbitrary       *)
(* model, as the tests of the evaluate module do.                          *)
(***************************************************************************)
EvalSeqs ==
    UNION {[1..k -> {Num(v) : v \in 0..MaxEvalValue}] : k \in 0..MaxEvalLen}

\* the sequences of tests/test_evaluate.py
TestTargets ==
    {<<Num(100), Num(102), Num(105), Num(103), Num(107)>>,
     <<Num(100), Num(100), Num(100), Num(100)>>}

\* scalers fitted on closes 0..1 (denormalising is then the identity) and 1..3
EvalScalers ==
    {ScalerFit(<< <<Num(0)>>, <<Num(1)>> >>), ScalerFit(<< <<Num(1)>>, <<Num(3)>> >>)}

InitEval ==
    /\ \E ys \in EvalSeqs \cup TestTargets, sc \in EvalScalers :
          result = [status |-> "returned", y_test |-> ys, scaler |-> sc]
    /\ pc = "returned"
    /\ history = Bars(<<>>)
    /\ lookback = 0
    /\ train_ratio = Num(0)
    /\ val_ratio = Num(0)
    /\ df = [Close |-> <<>>]
    /\ arg_df = [Close |-> <<>>]
    /\ data = <<>>
    /\ n = 0
    /\ train_end = 0
    /\ val_end = 0
    /\ scaler = NoScaler
    /\ fit_calls = 0
    /\ data_scaled = <<>>
    /\ close64 = <<>>
    /\ X = <<>>
    /\ y = <<>>
    /\ target_row = <<>>
    /\ results = NoResult
    /\ y_test_denorm = <<>>
    /\ baseline_mae = NaN
    /\ calls = [i \in Invocations |-> NewCall]
    /\ heap = [o \in Invocations |-> NoScaler]

EvaluateAny == EvaluateWith(EvalSeqs)

NextEval ==
    \/ EvaluateAny
    \/ DenormaliseYTest
    \/ Baseline

SpecEval == InitEval /\ [][NextEval]_vars

BaselineDone == pc = "done"

\* |y[1] - y[0]| + ... + |y[t-1] - y[t-2]| for the first t elements of y
RECURSIVE SumAbsSteps(_, _)
SumAbsSteps(ys, t) ==
    IF t <= 1 THEN Num(0)
    ELSE LET d == FSub(ys[t], ys[t - 1])
         IN  FAdd(SumAbsSteps(ys, t - 1), IF FLt(d, Num(0)) THEN FNeg(d) ELSE d)

\* C18: for a sequence of length M >= 2 naive_baseline is the sum of the
\* absolute consecutive differences divided by M - 1: 2.75 for
\* [100, 102, 105, 103, 107] and 0 for a constant sequence.
C18_NaiveBaseline ==
    (BaselineDone /\ Len(y_test_denorm) >= 2) =>
        /\ baseline_mae =
              FDiv(SumAbsSteps(y_test_denorm, Len(y_test_denorm)),
                   Num(Len(y_test_denorm) - 1))
        /\ (y_test_denorm = <<Num(100), Num(102), Num(105), Num(103), Num(107)>>
                => baseline_mae = Frac(275, 100))
        /\ ((\A k \in 1..Len(y_test_denorm) : y_test_denorm[k] = y_test_denorm[1])
                => baseline_mae = Num(0))

\* C18 witness: the baseline of [100, 102, 105, 103, 107] has been computed
C18_Witness ==
    /\ BaselineDone
    /\ y_test_denorm = <<Num(100), Num(102), Num(105), Num(103), Num(107)>>
    /\ baseline_mae = Frac(275, 100)

\* C19 (as claimed): for a sequence of fewer than 2 elements naive_baseline
\* raises or returns 0.
C19_Claim ==
    (BaselineDone /\ Len(y_test_denorm) < 2) => baseline_mae = Num(0)

\* C20 (as claimed): evaluate_model returns only for non-empty sequences of
\* equal length, and then with finite mse and mae.
C20_Claim ==
    results.status = "returned" =>
        /\ Len(results.predictions) = Len(results.y_test)
        /\ Len(results.y_test) > 0
        /\ IsFinite(results.mse) /\ IsFinite(results.mae)

\* the sum of f(predictions[k] - y_test[k]) over the first t positions, with
\* f the square (squared = TRUE) or the absolute value
RECURSIVE SumErrors(_, _, _, _)
SumErrors(ps, ts, t, squared) ==
    IF t = 0 THEN Num(0)
    ELSE LET d == FSub(ps[t], ts[t])
         IN  FAdd(SumErrors(ps, ts, t - 1, squared),
                  IF squared THEN FMul(d, d)
                  ELSE IF FLt(d, Num(0)) THEN FNeg(d) ELSE d)

Evaluated == results.status = "returned"

\* C21: for non-empty sequences of equal length evaluate_model returns
\* mse = mean((p - t)^2) >= 0 and mae = mean(|p - t|) >= 0, and both are 0
\* when the predictions equal the targets element by element.
C21_EvaluateMetrics ==
    (Evaluated /\ Len(results.predictions) = Len(results.y_test)
               /\ Len(results.y_test) > 0) =>
        LET ps == results.predictions
            ts == results.y_test
            m == Len(ts)
        IN  /\ results.mse = FDiv(SumErrors(ps, ts, m, TRUE), Num(m))
            /\ results.mae = FDiv(SumErrors(ps, ts, m, FALSE), Num(m))
            /\ FLe(Num(0), results.mse) /\ FLe(Num(0), results.mae)
            /\ (ps = ts => results.mse = Num(0) /\ results.mae = Num(0))

\* C21 witness: an evaluation of predictions that equal their targets, of
\* length 2 or more and not constant, has returned zero errors
C21_Witness ==
    /\ Evaluated
    /\ results.predictions = results.y_test
    /\ Len(results.y_test) >= 2
    /\ results.y_test[1] # results.y_test[2]
    /\ results.mse = Num(0) /\ results.mae = Num(0)

(***************************************************************************)
(* The returned dict of prepare_data.                                      *)
(***************************************************************************)
\* the shape of np.array(a) for a list a of windows: (len, lookback,
\* features), and (0,) for the empty list
NpShape(a) ==
    IF Len(a) = 0 THEN <<0>> ELSE <<Len(a), Len(a[1]), Len(a[1][1])>>

\* the shape of a slice of np.array(whole) along its first axis
SliceShape(whole, part) == <<Len(part)>> \o Tail(NpShape(whole))

\* the fields of the result that stand for the dict's keys
DictKeys == DOMAIN result \ {"status", "rows_train", "rows_val", "rows_test"}

Groups == {"train", "val", "test"}

GroupX(s) ==
    IF s = "train" THEN result.X_train
    ELSE IF s = "val" THEN result.X_val ELSE result.X_test

GroupY(s) ==
    IF s = "train" THEN result.y_train
    ELSE IF s = "val" THEN result.y_val ELSE result.y_test

GroupRows(s) ==
    IF s = "train" THEN result.rows_train
    ELSE IF s = "val" THEN result.rows_val ELSE result.rows_test

\* C22 (as claimed): the returned dict has exactly the keys X_train, y_train,
\* X_val, y_val, X_test, y_test and scaler; each X_s has the shape
\* (n_s, lookback, 10) and y_s the length n_s; y_s[k] is the scaled close of
\* the row that follows the last row of the window X_s[k].
C22_Claim ==
    Returned =>
        /\ DictKeys = {"X_train", "y_train", "X_val", "y_val", "X_test",
                       "y_test", "scaler"}
        /\ \A s \in Groups :
              /\ SliceShape(X, GroupX(s)) = <<Len(GroupY(s)), lookback, 10>>
              /\ \A k \in 1..Len(GroupX(s)) :
                    LET last == GroupRows(s)[k]
                    IN  /\ GroupX(s)[k][lookback] = data_scaled[last]
                        /\ GroupY(s)[k] = data_scaled[last + 1][1]

(***************************************************************************)
(* The FeatureMatrix: the rows of the IndicatorFrame that prepare_data     *)
(* keeps.                                                                  *)
(***************************************************************************)
Selected == pc = "split"

\* the ten feature values of row t of an IndicatorFrame, Close first
FeatureRow(frame, t) ==
    <<frame.Close[t], frame.Volume[t], frame.SMA_10[t], frame.SMA_30[t],
      frame.RSI_14[t], frame.MACD[t], frame.MACD_signal[t],
      frame.BB_upper[t], frame.BB_lower[t], frame.Returns[t]>>

\* the rows of an IndicatorFrame in which all ten features are defined
DefinedRows(frame) ==
    {t \in 1..NRows(frame) : \A c \in 1..10 : ~IsNaN(FeatureRow(frame, t)[c])}

\* C25: the FeatureMatrix has exactly the 10 columns Close, Volume, SMA_10,
\* SMA_30, RSI_14, MACD, MACD_signal, BB_upper, BB_lower, Returns in that
\* order, and exactly the rows of the IndicatorFrame in which all 10 are
\* defined, in their chronological order: every step from the IndicatorFrame
\* df to the FeatureMatrix data' yields this matrix.
C25_FeatureMatrix ==
    [][(pc = "select" /\ pc' = "split") =>
          LET defined == DefinedRows(df)
          IN  /\ Len(data') = Cardinality(defined)
              /\ \A t \in defined :
                    data'[Cardinality({u \in defined : u <= t})] = FeatureRow(df, t)
              /\ \A k \in 1..Len(data') : Len(data'[k]) = 10]_vars

\* C25 witness: a FeatureMatrix of two or more rows from which a row after
\* the warm-up was dropped, followed by a row that was kept
C25_Witness ==
    /\ Selected
    /\ Len(data) >= 2
    /\ LET frame == add_technical_indicators(download_stock_data(history))
       IN  \E t \in (WarmupBars + 1)..(NRows(frame) - 1) :
              /\ t \notin DefinedRows(frame)
              /\ NRows(frame) \in DefinedRows(frame)
              /\ data[Len(data)] = FeatureRow(frame, NRows(frame))

\* C26 (as claimed): prepare_data returns only when the history has at least
\* as many bars as the longest indicator warm-up plus the lookback.
C26_Claim ==
    Returned => NRows(history) >= WarmupBars + lookback

(***************************************************************************)
(* MACD and its signal line.                                               *)
(***************************************************************************)
\* the first t values of EMA[0] = s[0], EMA[k] = a * s[k] + (1 - a) * EMA[k-1],
\* each step rounded as a float operation is
RECURSIVE Ema(_, _, _)
Ema(s, a, t) ==
    IF t = 0 THEN <<>>
    ELSE IF t = 1 THEN <<s[1]>>
    ELSE LET prev == Ema(s, a, t - 1)
         IN  IF Len(prev) # t - 1 THEN prev
             ELSE Append(prev, Round(FAdd(FMul(a, s[t]),
                                          FMul(FSub(Num(1), a), prev[t - 1]))))

\* C28: MACD = EMA_12(Close) - EMA_26(Close) with the EMAs seeded at the
\* first close and a = 2 / (span + 1); MACD_signal is the same recursion
\* with span 9 on MACD; both are 0 at row 0, and 0 at every row of a
\* constant close series.
C28_MACD ==
    HasFrame =>
        LET close == df.Close
            rows == NRows(df)
            ema_12 == Ema(close, Frac(2, 13), rows)
            ema_26 == Ema(close, Frac(2, 27), rows)
            signal == Ema(df.MACD, Frac(2, 10), rows)
        IN  /\ \A t \in 1..rows :
                  /\ df.MACD[t] = FSub(ema_12[t], ema_26[t])
                  /\ df.MACD_signal[t] = signal[t]
            /\ rows >= 1 => (df.MACD[1] = Num(0) /\ df.MACD_signal[1] = Num(0))
            /\ (\A t \in 1..rows : close[t] = close[1]) =>
                  \A t \in 1..rows :
                      df.MACD[t] = Num(0) /\ df.MACD_signal[t] = Num(0)

\* C28 witness: an IndicatorFrame over a close series that moves, with a
\* non-zero MACD in its last row that differs from its signal line
C28_Witness ==
    /\ HasFrame
    /\ NRows(df) > WarmupBars
    /\ df.Close[NRows(df)] # df.Close[1]
    /\ df.MACD[NRows(df)] # Num(0)
    /\ df.MACD_signal[NRows(df)] # df.MACD[NRows(df)]
    /\ df.MACD[1] = Num(0)

(***************************************************************************)
(* The split when the lookback fits into the train prefix.                 *)
(***************************************************************************)
LookbackFits == Returned /\ lookback <= train_end

InUnitInterval(v) == FLe(Num(0), v) /\ FLe(v, Num(1))

\* 0 <= d <= 1 for a signed double d
InUnitInterval64(d) ==
    \/ Len(d.abs.man) = 0
    \/ /\ ~d.neg
       /\ \/ MantissaBits + d.abs.exp <= 0
          \/ /\ MantissaBits + d.abs.exp = 1
             /\ d.abs.man = <<1>> \o Zeros(MantissaBits - 1)

\* 0 <= d < 1 + 2^-40 for a signed double d
NearUnitInterval64(d) ==
    \/ Len(d.abs.man) = 0
    \/ /\ ~d.neg
       /\ \/ MantissaBits + d.abs.exp <= 0
          \/ /\ MantissaBits + d.abs.exp = 1
             /\ \A i \in 2..41 : d.abs.man[i] = 0

\* every row a training example refers to lies in the train prefix, and is
\* the row the example's values were taken from
TrainRowsInPrefix ==
    \A k \in 1..Len(result.X_train) :
        LET target == result.rows_train[k]
        IN  /\ target < train_end
            /\ target - lookback >= 0
            /\ \A j \in 1..lookback :
                  result.X_train[k][j] = data_scaled[target - lookback + j]
            /\ result.y_train[k] = data_scaled[target + 1][1]

\* the rows of data_scaled (1-based) the training examples refer to
TrainRows ==
    UNION {(result.rows_train[k] - lookback + 1)..(result.rows_train[k] + 1) :
             k \in 1..Len(result.X_train)}

RowRange(lo, hi) == [k \in 1..(hi - lo) |-> lo + k - 1]

\* C30: when lookback <= train_end, prepare_data returns exactly
\* train_end - lookback training examples, val_end - train_end validation
\* examples and N - val_end test examples; the validation and test examples
\* are those whose target row lies in [train_end, val_end) and [val_end, N).
C30_GroupSizes ==
    LookbackFits =>
        /\ Len(result.X_train) = train_end - lookback
        /\ Len(result.y_train) = train_end - lookback
        /\ Len(result.X_val) = val_end - train_end
        /\ Len(result.y_val) = val_end - train_end
        /\ Len(result.X_test) = Len(data) - val_end
        /\ Len(result.y_test) = Len(data) - val_end
        /\ result.rows_train = RowRange(lookback, train_end)
        /\ result.rows_val = RowRange(train_end, val_end)
        /\ result.rows_test = RowRange(val_end, Len(data))
        /\ \A s \in Groups : \A k \in 1..Len(GroupX(s)) :
              /\ GroupX(s)[k] = SubSeq(data_scaled, GroupRows(s)[k] - lookback + 1,
                                       GroupRows(s)[k])
              /\ GroupY(s)[k] = data_scaled[GroupRows(s)[k] + 1][1]

\* C30 witness: three non-empty groups of different sizes with a lookback
\* above 1
C30_Witness ==
    /\ LookbackFits
    /\ lookback >= 2
    /\ Len(result.X_train) > Len(result.X_test)
    /\ Len(result.X_test) > Len(result.X_val)
    /\ Len(result.X_val) >= 2

(***************************************************************************)
(* add_technical_indicators and its argument.                              *)
(***************************************************************************)
IndicatorCols ==
    {"SMA_10", "SMA_30", "Returns", "RSI_14", "MACD", "MACD_signal",
     "BB_upper", "BB_lower"}

\* C24: add_technical_indicators leaves its input unchanged: after the call
\* the input has the rows, columns and values it had before (no indicator
\* column added); the derived columns exist only in the returned frame.
C24_InputUnchanged ==
    HasFrame =>
        /\ arg_df = download_stock_data(history)
        /\ DOMAIN arg_df = OHLCV
        /\ IndicatorCols \cap DOMAIN arg_df = {}
        /\ IndicatorCols \subseteq DOMAIN df
        /\ \A c \in OHLCV : df[c] = arg_df[c]

\* C24 witness: a call on a frame of more rows than the longest warm-up has
\* returned a frame with a defined SMA_30, next to an input without it
C24_Witness ==
    /\ HasFrame
    /\ NRows(arg_df) > WarmupBars
    /\ "SMA_30" \in DOMAIN df
    /\ ~IsNaN(df.SMA_30[NRows(df)])
    /\ "SMA_30" \notin DOMAIN arg_df

(***************************************************************************)
(* Several invocations of prepare_data side by side.  Each invocation has  *)
(* its own locals (calls[i]); the objects it creates live on a heap the    *)
(* invocations share, as the objects of one Python process do.  The steps  *)
(* of the invocations interleave freely, one after the other included.     *)
(***************************************************************************)
MaxCallLookback == 2

Tickers == {"SPY", "QQQ"}

\* every invocation is made with the default ratios
CallRatios == {<<DEFAULT_TRAIN_RATIO, DEFAULT_VAL_RATIO>>}

\* stock.history(period="5y"): the bars the provider holds for a ticker
SourceBars(ticker) ==
    IF ticker = "SPY" THEN Bars(WarmupClose("zigzag") \o <<1, 2, 2, 1>>)
    ELSE Bars(WarmupClose("ramp") \o <<31, 30, 32, 33, 31>>)

\* one module-level scaler that every invocation fits
ScalerObject_Shared(i) == 1

\* scaler = MinMaxScaler(): the object invocation i creates, its own
ScalerObject(i) == i

InitCalls ==
    /\ history = Bars(<<>>)
    /\ InitLocals

singleVars == <<pc, dataVars, result, mainVars>>

\* calls with the locals of invocation i replaced by c
Update(i, c) == [calls EXCEPT ![i] = c]

CallDownload(i) ==
    /\ calls[i].pc = "download"
    /\ \E t \in Tickers :
          calls' = Update(i, [calls[i] EXCEPT !.ticker = t,
                                               !.df = download_stock_data(SourceBars(t)),
                                               !.pc = "indicators"])
    /\ UNCHANGED <<heap, singleVars>>

CallAddIndicators(i) ==
    /\ calls[i].pc = "indicators"
    /\ calls' = Update(i, [calls[i] EXCEPT !.df = add_technical_indicators(calls[i].df),
                                           !.pc = "select"])
    /\ UNCHANGED <<heap, singleVars>>

CallSelect(i) ==
    /\ calls[i].pc = "select"
    /\ LET sel == SelectCols(calls[i].df, feature_cols)
           kept == DropNa(sel, DOMAIN sel)
       IN  calls' = Update(i, [calls[i] EXCEPT !.df = kept,
                                               !.data = Values(kept, feature_cols),
                                               !.pc = "split"])
    /\ UNCHANGED <<heap, singleVars>>

CallSplit(i) ==
    /\ calls[i].pc = "split"
    /\ \E r \in CallRatios :
          calls' = Update(i, [calls[i] EXCEPT
                                 !.train_ratio = r[1],
                                 !.val_ratio = r[2],
                                 !.train_end = TrainEnd(Len(calls[i].data), r[1]),
                                 !.val_end = ValEnd(Len(calls[i].data), r[1], r[2]),
                                 !.pc = "fit"])
    /\ UNCHANGED <<heap, singleVars>>

CallFit(i) ==
    /\ calls[i].pc = "fit"
    /\ LET rows == FitRows(calls[i].data, calls[i].train_end)
           obj == ScalerObject(i)
       IN  IF CheckArray(rows)
           THEN /\ heap' = [heap EXCEPT ![obj] = ScalerFit(rows)]
                /\ calls' = Update(i, [calls[i] EXCEPT !.scaler = obj, !.pc = "transform"])
           ELSE /\ heap' = heap
                /\ calls' = Update(i, [calls[i] EXCEPT !.scaler = obj, !.pc = "raised"])
    /\ UNCHANGED singleVars

CallTransform(i) ==
    /\ calls[i].pc = "transform"
    /\ IF CheckArray(calls[i].data)
       THEN calls' = Update(i, [calls[i] EXCEPT
                                   !.data_scaled = ScalerTransform(heap[calls[i].scaler],
                                                                   calls[i].data),
                                   !.pc = "windows"])
       ELSE calls' = Update(i, [calls[i] EXCEPT !.pc = "raised"])
    /\ UNCHANGED <<heap, singleVars>>

CallWindows(i) ==
    /\ calls[i].pc = "windows"
    /\ \E lb \in 1..MaxCallLookback :
          LET rows == calls[i].data_scaled
              targets == WindowTargets(Len(rows), lb)
          IN  calls' = Update(i, [calls[i] EXCEPT
                                     !.lookback = lb,
                                     !.X = [k \in DOMAIN targets |-> WindowAt(rows, lb, targets[k])],
                                     !.y = [k \in DOMAIN targets |-> TargetAt(rows, targets[k])],
                                     !.pc = "return"])
    /\ UNCHANGED <<heap, singleVars>>

\* the dict of one invocation; its scaler entry refers to the object fitted
ReturnedDict(c) ==
    [status |-> "returned",
     X_train |-> SplitTrain(c.X, c.train_end, c.lookback),
     y_train |-> SplitTrain(c.y, c.train_end, c.lookback),
     X_val |-> SplitVal(c.X, c.train_end, c.val_end, c.lookback),
     y_val |-> SplitVal(c.y, c.train_end, c.val_end, c.lookback),
     X_test |-> SplitTest(c.X, c.val_end, c.lookback),
     y_test |-> SplitTest(c.y, c.val_end, c.lookback),
     scaler |-> c.scaler]

CallReturn(i) ==
    /\ calls[i].pc = "return"
    /\ calls' = Update(i, [calls[i] EXCEPT !.result = ReturnedDict(calls[i]),
                                           !.pc = "returned"])
    /\ UNCHANGED <<heap, singleVars>>

NextCalls ==
    \E i \in Invocations :
        \/ CallDownload(i)
        \/ CallAddIndicators(i)
        \/ CallSelect(i)
        \/ CallSplit(i)
        \/ CallFit(i)
        \/ CallTransform(i)
        \/ CallWindows(i)
        \/ CallReturn(i)

SpecCalls == InitCalls /\ [][NextCalls]_vars

\* lines 105-138 run without any other invocation in between, on the
\* FeatureMatrix and the arguments of invocation c: the dict, with the fitted
\* scaler itself in place of a reference
RunAlone(c) ==
    LET sc == ScalerFit(FitRows(c.data, c.train_end))
        rows == ScalerTransform(sc, c.data)
        targets == WindowTargets(Len(rows), c.lookback)
        alone == [c EXCEPT
                     !.X = [k \in DOMAIN targets |-> WindowAt(rows, c.lookback, targets[k])],
                     !.y = [k \in DOMAIN targets |-> TargetAt(rows, targets[k])]]
    IN  [ReturnedDict(alone) EXCEPT !.scaler = sc]

\* the dict invocation i returned, with the bounds its scaler holds now
Outcome(i) == [calls[i].result EXCEPT !.scaler = heap[calls[i].result.scaler]]

HasReturned(i) == calls[i].pc = "returned"

SameInputs(i, j) ==
    /\ calls[i].ticker = calls[j].ticker
    /\ calls[i].lookback = calls[j].lookback
    /\ calls[i].train_ratio = calls[j].train_ratio
    /\ calls[i].val_ratio = calls[j].val_ratio

\* C23: two invocations of prepare_data with the same ticker, lookback and
\* ratios over the same source bars return identical arrays and identical
\* scaler bounds, whatever other invocations ran before or in between.
C23_Repeatable ==
    \A i, j \in Invocations :
        (HasReturned(i) /\ HasReturned(j) /\ SameInputs(i, j)) =>
            Outcome(i) = Outcome(j)

\* C23 witness: two invocations with the same inputs have returned the same
\* non-empty arrays after a third one with another ticker returned
C23_Witness ==
    /\ \A i \in Invocations : HasReturned(i)
    /\ SameInputs(1, 2)
    /\ calls[3].ticker # calls[1].ticker
    /\ Len(calls[1].result.X_train) > 0
    /\ Outcome(1) = Outcome(2)
    /\ Outcome(3) # Outcome(1)

\* C27: invocations for different tickers and configurations whose steps
\* interleave arbitrarily each return the arrays and scaler bounds they
\* return when run alone, and each returned scaler holds the bounds fitted
\* in its own invocation.
C27_Isolated ==
    \A i \in Invocations :
        HasReturned(i) =>
            /\ Outcome(i) = RunAlone(calls[i])
            /\ calls[i].data = Values(calls[i].df, feature_cols)
            /\ \A j \in Invocations :
                  (j # i /\ HasReturned(j) /\ calls[j].ticker # calls[i].ticker) =>
                      calls[j].result.scaler # calls[i].result.scaler

\* C27 witness: two invocations for different tickers and lookbacks have
\* returned, each with the bounds of its own train prefix, while the third is
\* between fitting and transforming
C27_Witness ==
    /\ HasReturned(1) /\ HasReturned(2)
    /\ calls[3].pc = "transform"
    /\ calls[1].ticker # calls[2].ticker
    /\ calls[1].lookback # calls[2].lookback
    /\ Outcome(1).scaler # Outcome(2).scaler
    /\ Len(calls[1].result.X_train) > 0
    /\ Len(calls[2].result.X_train) > 0

=============================================================================
